---------------------------- MODULE Spec2Model ----------------------------
(***************************************************************************)
(* A model of src/tbeti_parser.py (class TbetiTEIParser).                  *)
(*                                                                         *)
(* Text is a sequence of characters; a character is a one-element string.  *)
(* Georgian letters are written in Latin transliteration                   *)
(*   a=ა b=ბ g=გ d=დ e=ე v=ვ z=ზ t=თ i=ი k=კ l=ლ m=მ n=ნ o=ო p=პ r=რ s=ს      *)
(*   T=ტ u=უ q=ქ gh=ღ sh=შ ts=ც dz=ძ kh=ხ ch=ჭ j=ჯ                          *)
(* and the ASCII letters that occur in markup are written "lat_x", so the  *)
(* two alphabets stay disjoint.  Python dicts are functions whose DOMAIN   *)
(* is the set of keys present.                                             *)
(***************************************************************************)
EXTENDS Integers, Sequences, FiniteSets, TLC

VARIABLES
    entries,      \* self.entries
    statistics,   \* self.statistics
    returned,     \* the list the last batch call returned
    raised,       \* TRUE iff the last batch call ended with an exception
    lastCall,     \* the last operation and its input
    calls,        \* number of batch calls so far
    arg,          \* input of the pure-function harnesses
    res           \* outputs of the pure-function harnesses, in order

vars == <<entries, statistics, returned, raised, lastCall, calls, arg, res>>

(***************************************************************************)
(* Characters and character classes                                        *)
(***************************************************************************)

\* [Ⴀ-ჿ]
Georgian ==
    {"a", "b", "g", "d", "e", "v", "z", "t", "i", "k", "l", "m", "n", "o",
     "p", "r", "s", "T", "u", "q", "gh", "sh", "ts", "dz", "kh", "ch", "j"}

\* \s of the re module, and what str.strip() removes
Whitespace == {" ", "\n", "\t"}

\* \d
Digits == {"0", "1", "2", "3", "4", "5", "6", "7", "8", "9"}

\* the character class [{}[\]\\] of clean_text
Artifacts == {"{", "}", "[", "]", "\\"}

\* Python's None, where a text may be None
None == <<"<None>">>

(***************************************************************************)
(* Evaluation order.  Python evaluates the arguments of a call and the     *)
(* right-hand side of an assignment once, before the callee or the next    *)
(* statement runs; these operators say so.                                 *)
(***************************************************************************)

\* F(a), with a evaluated once
Call1(F(_), a) == CHOOSE r \in {F(x) : x \in {a}} : TRUE

\* F(a, b), with a and b evaluated once
Call2(F(_, _), a, b) == CHOOSE r \in {F(x, y) : x \in {a}, y \in {b}} : TRUE

\* acc = acc0; for i, x in enumerate(seq, 1): acc = Body(acc, i, x); the final acc
ForEach(Body(_, _, _), seq, acc0) ==
    Call2(LAMBDA xs, a0 :
            LET f[k \in 0..Len(xs)] ==
                  IF k = 0 THEN a0
                  ELSE CHOOSE r \in {Body(a, k, x) : a \in {f[k - 1]}, x \in {xs[k]}} : TRUE
            IN  f[Len(xs)],
          seq, acc0)

(***************************************************************************)
(* Sequence helpers (the semantics of the str and re primitives used)      *)
(***************************************************************************)

\* s[i-1:i-1+len(w)] == w   (1-based i)
StartsAt(s, i, w) ==
    /\ i >= 1
    /\ i + Len(w) - 1 <= Len(s)
    /\ \A k \in 1..Len(w) : s[i + k - 1] = w[k]

\* s.endswith(w)
EndsWith(s, w) == Len(w) <= Len(s) /\ StartsAt(s, Len(s) - Len(w) + 1, w)

\* w in s
Contains(s, w) == \E i \in 1..(Len(s) + 1) : StartsAt(s, i, w)

\* s[i-1:j]  (1-based, inclusive; empty when j < i)
Slice(s, i, j) == IF j < i THEN <<>> ELSE SubSeq(s, i, j)

\* re.sub(r'[C]', '', s)
RemoveChars(s, C) == SelectSeq(s, LAMBDA c : c \notin C)

\* the least element of a set of positions, 0 when the set is empty
First(S) ==
    Call1(LAMBDA T : IF T = {} THEN 0 ELSE CHOOSE x \in T : \A y \in T : x <= y, S)

\* the greatest element of a set of positions, 0 when the set is empty
Last(S) ==
    Call1(LAMBDA T : IF T = {} THEN 0 ELSE CHOOSE x \in T : \A y \in T : y <= x, S)

\* first position >= i whose character is not in C (Len(s)+1 when none)
SkipClass(s, i, C) ==
    IF i > Len(s) THEN i
    ELSE First({p \in i..(Len(s) + 1) : p > Len(s) \/ s[p] \notin C})

\* last position <= j whose character is not in C (0 when none)
SkipClassBack(s, j, C) == Last({p \in 1..j : s[p] \notin C})

\* first position >= i where literal w occurs, 0 when none
FindLit(s, i, w) == First({p \in i..Len(s) : StartsAt(s, p, w)})

\* first position >= i holding a character of C, 0 when none
FindClass(s, i, C) == First({p \in i..Len(s) : s[p] \in C})

\* re.sub(r'\s+', ' ', s): each run of whitespace becomes one space
CollapseWhitespace(s) ==
    Call1(LAMBDA keep :
            [n \in 1..Len(keep) |-> IF s[keep[n]] \in Whitespace THEN " " ELSE s[keep[n]]],
          SelectSeq([k \in 1..Len(s) |-> k],
                    LAMBDA k : s[k] \notin Whitespace \/ k = 1 \/ s[k - 1] \notin Whitespace))

\* re.sub(literal w, r, s): leftmost, non-overlapping
ReplaceAll(s, w, r) ==
    LET f[p \in Nat] ==
          Call1(LAMBDA c : IF c = 0 THEN Slice(s, p, Len(s))
                           ELSE Slice(s, p, c - 1) \o r \o f[c + Len(w)],
                FindLit(s, p, w))
    IN  f[1]

\* s.strip()
Strip(s) ==
    Slice(s, SkipClass(s, 1, Whitespace), SkipClassBack(s, Len(s), Whitespace))

(***************************************************************************)
(* clean_text                                                              *)
(***************************************************************************)

\* the three scribal abbreviations and their expansions
Abbrev1 == <<"s", "(", "u", "l", "s", ")", "a">>
Expand1 == <<"s", "u", "l", "s", "a">>
Abbrev2 == <<"sh", "(", "e", "u", "n", "d", "v", "e", ")", "n">>
Expand2 == <<"sh", "e", "u", "n", "d", "v", "e", "n">>
Abbrev3 == <<"gh", "(", "m", "e", "r", "t", "m", "a", ")", "n">>
Expand3 == <<"gh", "m", "e", "r", "t", "m", "a", "n">>

\* the three expansions, in turn
ExpandAbbreviations(text) ==
    Call1(LAMBDA t2 : ReplaceAll(t2, Abbrev3, Expand3),
          Call1(LAMBDA t1 : ReplaceAll(t1, Abbrev2, Expand2),
                ReplaceAll(text, Abbrev1, Expand1)))

\* a plausible slip: trimming first, removing artifacts and collapsing last
clean_text_TrimFirst(text) ==
    IF text = None \/ text = <<>> THEN <<>>
    ELSE Call1(LAMBDA t3 : CollapseWhitespace(t3),
         Call1(LAMBDA t2 : RemoveChars(t2, Artifacts),
         Call1(LAMBDA t1 : ExpandAbbreviations(t1),
               Strip(text))))

clean_text(text) ==
    IF text = None \/ text = <<>> THEN <<>>
    ELSE Call1(LAMBDA t3 : Strip(t3),
         Call1(LAMBDA t2 : ExpandAbbreviations(t2),
         Call1(LAMBDA t1 : CollapseWhitespace(t1),
               RemoveChars(text, Artifacts))))

(***************************************************************************)
(* Morphological classifier                                                *)
(***************************************************************************)

\* the kinship words and suffixes, as character sequences
shvili    == <<"sh", "v", "i", "l", "i">>                    \* შვილი
sdze      == <<"s", "dz", "e">>                              \* სძე
idze      == <<"i", "dz", "e">>                              \* იძე
dze       == <<"dz", "e">>                                   \* ძე
isshvili  == <<"i", "s", "sh", "v", "i", "l", "i">>          \* ისშვილი
anisdze   == <<"a", "n", "i", "s", "dz", "e">>               \* ანისძე
et        == <<"e", "t">>                                    \* ეთ
eti       == <<"e", "t", "i">>                               \* ეთი
aet       == <<"a", "e", "t">>                               \* აეთ
iet       == <<"i", "e", "t">>                               \* იეთ
uet       == <<"u", "e", "t">>                               \* უეთ
ant       == <<"a", "n", "t">>                               \* ანთ
int       == <<"i", "n", "t">>                               \* ინთ
adze      == <<"a", "dz", "e">>                              \* აძე
avadze    == <<"a", "v", "a", "dz", "e">>                    \* ავაძე
eli       == <<"e", "l", "i">>                               \* ელი

\* place names
mtskheta   == <<"m", "ts", "kh", "e", "t", "a">>             \* მცხეთა
tbilisi    == <<"t", "b", "i", "l", "i", "s", "i">>          \* თბილისი
qutaisi    == <<"q", "u", "t", "a", "i", "s", "i">>          \* ქუთაისი
batumi     == <<"b", "a", "t", "u", "m", "i">>               \* ბათუმი
khani      == <<"kh", "a", "n", "i">>                        \* ხანი
svaneti    == <<"s", "v", "a", "n", "e", "t", "i">>          \* სვანეთი
imereti    == <<"i", "m", "e", "r", "e", "t", "i">>          \* იმერეთი
kakheti    == <<"k", "a", "kh", "e", "t", "i">>              \* კახეთი
samegrelo  == <<"s", "a", "m", "e", "g", "r", "e", "l", "o">> \* სამეგრელო
guria      == <<"g", "u", "r", "i", "a">>                    \* გურია
achara     == <<"a", "ch", "a", "r", "a">>                   \* აჭარა
tao        == <<"T", "a", "o">>                              \* ტაო
klarjeti   == <<"k", "l", "a", "r", "j", "e", "t", "i">>     \* კლარჯეთი
tbeti      == <<"T", "b", "e", "t", "i">>                    \* ტბეთი
oshki      == <<"o", "sh", "k", "i">>                        \* ოშკი
khakhuli   == <<"kh", "a", "kh", "u", "l", "i">>             \* ხახული

\* patronymic_endings (the same list in is_actual_place and is_patronymic)
patronymic_endings ==
    <<shvili, sdze, idze, dze, isshvili, anisdze, et, eti, aet, iet, uet, ant, int>>

\* surname_endings of is_actual_place
surname_endings == <<adze, avadze, eli>>

\* known_places of is_actual_place
known_places ==
    <<mtskheta, tbilisi, qutaisi, batumi, khani, svaneti, imereti, kakheti,
      samegrelo, guria, achara, tao, klarjeti, tbeti, oshki, khakhuli>>

\* any(name.endswith(e) for e in endings)
EndsWithAny(name, endings) ==
    \E k \in 1..Len(endings) : EndsWith(name, endings[k])

\* x in list
InList(x, list) == \E k \in 1..Len(list) : list[k] = x

\* the second definition (the one in effect); the first is the same text
is_patronymic(name) == EndsWithAny(name, patronymic_endings)

\* a plausible slip: the allow-list consulted before the suffix rules
is_actual_place_AllowListFirst(name) ==
    IF InList(name, known_places) THEN TRUE
    ELSE FALSE

is_actual_place(name) ==
    IF EndsWithAny(name, patronymic_endings) THEN FALSE
    ELSE IF EndsWithAny(name, surname_endings) THEN FALSE
    ELSE IF InList(name, known_places) THEN TRUE
    ELSE FALSE

(***************************************************************************)
(* dict, int and str primitives                                            *)
(***************************************************************************)

\* d[k] = v
Put(d, k, v) == [x \in (DOMAIN d) \cup {k} |-> IF x = k THEN v ELSE d[x]]

\* bool(d.get(k)) for a text value
TruthyText(d, k) == k \in DOMAIN d /\ d[k] # <<>>

\* {}
EmptyDict == <<>>

\* set(list)
Range(seq) == {seq[k] : k \in 1..Len(seq)}

\* entry_num.isdigit()
IsDigitStr(s) == s # <<>> /\ \A k \in 1..Len(s) : s[k] \in Digits

DigitValue(c) ==
    CASE c = "0" -> 0 [] c = "1" -> 1 [] c = "2" -> 2 [] c = "3" -> 3
      [] c = "4" -> 4 [] c = "5" -> 5 [] c = "6" -> 6 [] c = "7" -> 7
      [] c = "8" -> 8 [] c = "9" -> 9

DigitChar(v) == <<"0", "1", "2", "3", "4", "5", "6", "7", "8", "9">>[v + 1]

\* int(s) for a string of decimal digits
StrToInt(s) ==
    LET f[k \in 0..Len(s)] == IF k = 0 THEN 0 ELSE 10 * f[k - 1] + DigitValue(s[k])
    IN  f[Len(s)]

\* str(n) for n >= 0
IntToStr(n) ==
    LET f[m \in Nat] ==
          IF m < 10 THEN <<DigitChar(m)>> ELSE f[m \div 10] \o <<DigitChar(m % 10)>>
    IN  f[n]

\* f'{n:03d}' for n >= 0
Format03d(n) ==
    Call1(LAMBDA d : IF Len(d) >= 3 THEN d
                     ELSE IF Len(d) = 2 THEN <<"0">> \o d
                     ELSE <<"0", "0">> \o d,
          IntToStr(n))

\* f'entry_{n:03d}'
EntryIdOf(n) ==
    <<"lat_e", "lat_n", "lat_t", "lat_r", "lat_y", "_">> \o Format03d(n)

\* str.lower(), character by character
LowerChar(c) ==
    CASE c = "lat_I" -> "lat_i"
      [] c = "lat_V" -> "lat_v"
      [] c = "lat_X" -> "lat_x"
      [] c = "lat_N" -> "lat_n"
      [] OTHER -> c

Lower(s) == [k \in 1..Len(s) |-> LowerChar(s[k])]

(***************************************************************************)
(* The regular expressions of the free-text extractor                      *)
(***************************************************************************)

\* index of the first literal of lits that occurs at position j, 0 when none
\* (the alternation (?:a|b|...) tried in order)
FirstLitAt(s, j, lits) ==
    IF \E n \in 1..Len(lits) : StartsAt(s, j, lits[n])
    THEN CHOOSE n \in 1..Len(lits) :
            /\ StartsAt(s, j, lits[n])
            /\ \A m \in 1..(n - 1) : ~StartsAt(s, j, lits[m])
    ELSE 0

\* [Ⴀ-ჿ]+ \s* (lit|lit|...) tried at start position i: the run holds k
\* characters, k counted down from the whole run (the greedy run
\* backtracks); ws says whether the pattern has the \s* part.  [k, e]: run
\* length and last position of the match, k = 0 when there is no match at i.
MatchRunLit(s, i, ws, lits) ==
    LET After(k) == IF ws THEN SkipClass(s, i + k, Whitespace) ELSE i + k
    IN  Call1(LAMBDA k :
                IF k = 0 THEN [k |-> 0, e |-> 0]
                ELSE Call1(LAMBDA j : [k |-> k,
                                       e |-> j + Len(lits[FirstLitAt(s, j, lits)]) - 1],
                           After(k)),
              Last({k \in 1..(SkipClass(s, i, Georgian) - i) :
                      FirstLitAt(s, After(k), lits) # 0}))

\* re.finditer of such a pattern: the matches, leftmost first, non-
\* overlapping, as [b, k, e] (first position, run length, last position).
\* A match can only start in a run; when none starts at the run's first
\* tried position none starts later in that run (the same literal
\* positions are tried), so the scan goes on after the run.
FindRunLit(s, ws, lits) ==
    LET f[p \in Nat] ==
          Call1(LAMBDA b :
                  IF b = 0 THEN <<>>
                  ELSE Call1(LAMBDA m :
                               IF m.k = 0 THEN f[SkipClass(s, b, Georgian)]
                               ELSE <<[b |-> b, k |-> m.k, e |-> m.e]>> \o f[m.e + 1],
                             MatchRunLit(s, b, ws, lits)),
                FindClass(s, p, Georgian))
    IN  f[1]

\* the texts Slice(b, e) of a list of matches: group(0)
MatchTexts(s, ms) == [k \in 1..Len(ms) |-> Slice(s, ms[k].b, ms[k].e)]

\* the captured runs Slice(b, b + k - 1) of a list of matches: group(1)
MatchRuns(s, ms) == [k \in 1..Len(ms) |-> Slice(s, ms[k].b, ms[k].b + ms[k].k - 1)]

\* re.findall(r'[Ⴀ-ჿ]+', s): the maximal runs
GeorgianRuns(s) ==
    LET f[p \in Nat] ==
          Call1(LAMBDA b :
                  IF b = 0 THEN <<>>
                  ELSE Call1(LAMBDA q : <<Slice(s, b, q - 1)>> \o f[q],
                             SkipClass(s, b, Georgian)),
                FindClass(s, p, Georgian))
    IN  f[1]

(***************************************************************************)
(* Role and occupation                                                     *)
(***************************************************************************)

makharebel == <<"m", "a", "kh", "a", "r", "e", "b", "e", "l">>   \* მახარებელ
episkopos  == <<"e", "p", "i", "s", "k", "o", "p", "o", "s">>    \* ეპისკოპოს
mghvdel    == <<"m", "gh", "v", "d", "e", "l">>                  \* მღვდელ
ber        == <<"b", "e", "r">>                                  \* ბერ

determine_person_type(text) ==
    Call1(LAMBDA text_lower :
            IF Contains(text_lower, makharebel) THEN "evangelist"
            ELSE IF Contains(text_lower, episkopos) THEN "bishop"
            ELSE IF Contains(text_lower, mghvdel) THEN "priest"
            ELSE IF Contains(text_lower, ber) THEN "monk"
            ELSE "main",
          Lower(text))

get_occupation_from_type(person_type) ==
    IF person_type \in {"evangelist", "bishop", "priest", "monk", "deacon", "ktitor"}
    THEN person_type
    ELSE ""

(***************************************************************************)
(* Free-text extraction of one entry                                       *)
(***************************************************************************)

patronymic_patterns ==
    << <<shvili, sdze, idze, dze>>, <<isshvili>>, <<anisdze>>, <<et>>, <<aet>>,
       <<iet>>, <<uet>>, <<ant>>, <<int>> >>

\* the patterns in order; within a pattern the matches in order; the first
\* match that is not the main name, '' when there is none
extract_patronymic_from_text(text, main_name) ==
    LET f[n \in Nat] ==
          IF n > Len(patronymic_patterns) THEN <<>>
          ELSE Call1(LAMBDA ok : IF ok # <<>> THEN ok[1] ELSE f[n + 1],
                     SelectSeq(MatchTexts(text, FindRunLit(text, FALSE,
                                                           patronymic_patterns[n])),
                               LAMBDA match : match # main_name))
    IN  f[1]

surname_patterns == << <<eli>>, <<adze>>, <<avadze>> >>

extract_surname_from_text(text, main_name, patronymic) ==
    LET f[n \in Nat] ==
          IF n > Len(surname_patterns) THEN <<>>
          ELSE Call1(LAMBDA ok : IF ok # <<>> THEN ok[1] ELSE f[n + 1],
                     SelectSeq(MatchTexts(text, FindRunLit(text, FALSE,
                                                           surname_patterns[n])),
                               LAMBDA match : /\ match # main_name
                                              /\ match # patronymic
                                              /\ ~is_patronymic(match)))
    IN  f[1]

\* mainPerson once the first run is known: name, type, occupation, then the
\* patronymic and the surname when found
MainPersonOf(text, mainPerson, name) ==
    Call2(LAMBDA type, patronymic :
            Call2(LAMBDA mp, surname :
                    IF surname # <<>> THEN Put(mp, "surname", surname) ELSE mp,
                  IF patronymic # <<>>
                  THEN Put(Put(Put(Put(mainPerson, "name", name), "type", type),
                               "occupation", get_occupation_from_type(type)),
                           "patronymic", patronymic)
                  ELSE Put(Put(Put(mainPerson, "name", name), "type", type),
                           "occupation", get_occupation_from_type(type)),
                  extract_surname_from_text(text, name, patronymic)),
          determine_person_type(text),
          extract_patronymic_from_text(text, name))

\* returns the entry with mainPerson filled in
extract_main_person_from_text(text, entry) ==
    Call2(LAMBDA t, e :
            Call1(LAMBDA georgian_names :
                    IF georgian_names = <<>> THEN e
                    ELSE [e EXCEPT !.mainPerson = MainPersonOf(t, @, georgian_names[1])],
                  GeorgianRuns(t)),
          text, entry)

meughlesa == <<"m", "e", "u", "gh", "l", "e", "s", "a">>   \* მეუღლესა
meughlisa == <<"m", "e", "u", "gh", "l", "i", "s", "a">>   \* მეუღლისა
asuli     == <<"a", "s", "u", "l", "i">>                   \* ასული
dzmasa    == <<"dz", "m", "a", "s", "a">>                  \* ძმასა
dasa      == <<"d", "a", "s", "a">>                        \* დასა

family_patterns ==
    << [word |-> meughlesa, type |-> "wife"],
       [word |-> meughlisa, type |-> "wife"],
       [word |-> shvili,    type |-> "son"],
       [word |-> asuli,     type |-> "daughter"],
       [word |-> dzmasa,    type |-> "brother"],
       [word |-> dasa,      type |-> "sister"] >>

\* a plausible slip: the patronymic test applied to every relation
FamilyOfPattern_AnyRelation(text, mainPerson, pat, family) ==
    ForEach(LAMBDA fam, k, name :
              IF /\ name # <<>>
                 /\ ~("name" \in DOMAIN mainPerson /\ mainPerson["name"] = name)
                 /\ ~is_patronymic(name)
              THEN Append(fam, [name |-> name, type |-> pat.type,
                                relationship |-> pat.word])
              ELSE fam,
            MatchRuns(text, FindRunLit(text, TRUE, <<pat.word>>)),
            family)

\* the inner loop: the matches of one pattern, appended to family
FamilyOfPattern(text, mainPerson, pat, family) ==
    ForEach(LAMBDA fam, k, name :
              IF /\ name # <<>>
                 /\ ~("name" \in DOMAIN mainPerson /\ mainPerson["name"] = name)
                 /\ ~(is_patronymic(name) /\ pat.type \in {"son", "daughter"})
              THEN Append(fam, [name |-> name, type |-> pat.type,
                                relationship |-> pat.word])
              ELSE fam,
            MatchRuns(text, FindRunLit(text, TRUE, <<pat.word>>)),
            family)

extract_family_from_text(text, entry) ==
    Call2(LAMBDA t, e :
            [e EXCEPT !.familyMembers =
                ForEach(LAMBDA family, n, pat : FamilyOfPattern(t, e.mainPerson, pat, family),
                        family_patterns, @)],
          text, entry)

placeNameOpen ==
    <<"<", "lat_p", "lat_l", "lat_a", "lat_c", "lat_e", "lat_N", "lat_a", "lat_m", "lat_e">>
placeNameClose ==
    <<"<", "/", "lat_p", "lat_l", "lat_a", "lat_c", "lat_e", "lat_N", "lat_a", "lat_m",
      "lat_e", ">">>

\* re.findall(r'<placeName[^>]*>([Ⴀ-ჿ]+)</placeName>', s)
FindPlaceTags(s) ==
    LET f[p \in Nat] ==
          Call1(LAMBDA o :
                  IF o = 0 THEN <<>>
                  ELSE Call1(LAMBDA g :
                         Call1(LAMBDA q :
                                 IF g # 0 /\ q > g + 1 /\ StartsAt(s, q, placeNameClose)
                                 THEN <<Slice(s, g + 1, q - 1)>>
                                        \o f[q + Len(placeNameClose)]
                                 ELSE f[o + 1],
                               IF g = 0 THEN 0 ELSE SkipClass(s, g + 1, Georgian)),
                         FindClass(s, o + Len(placeNameOpen), {">"})),
                FindLit(s, p, placeNameOpen))
    IN  f[1]

\* entry['places'].append(place), and mainPerson.place when not yet set
AddPlace(entry, place) ==
    [entry EXCEPT
        !.places = Append(@, place),
        !.mainPerson = IF TruthyText(@, "place") THEN @ ELSE Put(@, "place", place)]

\* known_places of extract_places_from_text
text_known_places == <<mtskheta, tbilisi, qutaisi, tbeti>>

extract_places_from_text(text, entry) ==
    Call2(LAMBDA t, e0 :
            ForEach(LAMBDA e, k, place :
                      IF Contains(t, place) /\ ~InList(place, e.places)
                      THEN AddPlace(e, place) ELSE e,
                    text_known_places,
                    ForEach(LAMBDA e, k, place :
                              IF is_actual_place(place) THEN AddPlace(e, place) ELSE e,
                            FindPlaceTags(t), e0)),
          text, entry)

\* [IVXivx] and [rv]
FolioChars == {"lat_I", "lat_V", "lat_X", "lat_i", "lat_v", "lat_x"}
LeafSide == {"lat_r", "lat_v"}

\* re.search(r'f\.\s*([IVXivx]+[rv]?)', s): the group, <<>> when no match
SearchFolio(s) ==
    LET f[p \in Nat] ==
          Call1(LAMBDA o :
                  IF o = 0 THEN <<>>
                  ELSE Call1(LAMBDA j :
                         Call1(LAMBDA q :
                                 IF q = j THEN f[o + 1]
                                 ELSE IF q <= Len(s) /\ s[q] \in LeafSide
                                      THEN Slice(s, j, q)
                                 ELSE Slice(s, j, q - 1),
                               SkipClass(s, j, FolioChars)),
                         SkipClass(s, o + 2, Whitespace)),
                FindLit(s, p, <<"lat_f", ".">>))
    IN  f[1]

\* re.search(r'l\.\s*(\d+(?:-\d+)?)', s): the group, <<>> when no match
SearchLine(s) ==
    LET f[p \in Nat] ==
          Call1(LAMBDA o :
                  IF o = 0 THEN <<>>
                  ELSE Call1(LAMBDA j :
                         Call1(LAMBDA q :
                                 IF q = j THEN f[o + 1]
                                 ELSE IF q <= Len(s) /\ s[q] = "-"
                                         /\ SkipClass(s, q + 1, Digits) > q + 1
                                      THEN Slice(s, j, SkipClass(s, q + 1, Digits) - 1)
                                 ELSE Slice(s, j, q - 1),
                               SkipClass(s, j, Digits)),
                         SkipClass(s, o + 2, Whitespace)),
                FindLit(s, p, <<"lat_l", ".">>))
    IN  f[1]

\* the second definition (the one in effect); the first is the same text
extract_manuscript_from_text(text, entry) ==
    Call2(LAMBDA folio, line :
            [entry EXCEPT !.manuscript =
                Call1(LAMBDA m : IF line # <<>> THEN Put(m, "line", line) ELSE m,
                      IF folio # <<>> THEN Put(Put(@, "page", folio), "folio", folio)
                      ELSE @)],
          SearchFolio(text), SearchLine(text))

\* The body of the try block.  [raise, val]: raise says an exception left
\* the block, val is <<entry>>.  nEntries is len(self.entries).
parse_entry_from_text_try(content, entry_num, nEntries) ==
    Call2(LAMBDA c, entry_number :
            [raise |-> FALSE,
             val |-> <<
                extract_manuscript_from_text(c,
                  extract_places_from_text(c,
                    extract_family_from_text(c,
                      extract_main_person_from_text(c,
                        [entryId |-> EntryIdOf(entry_number),
                         entryNumber |-> entry_number,
                         mainPerson |-> EmptyDict,
                         familyMembers |-> <<>>,
                         manuscript |-> EmptyDict,
                         edition |-> EmptyDict,
                         dates |-> EmptyDict,
                         notes |-> clean_text(c),
                         places |-> <<>>])))) >>],
          content,
          IF IsDigitStr(entry_num) THEN StrToInt(entry_num) ELSE nEntries + 1)

\* try ... except Exception: return None.  val is <<>> for None.
parse_entry_from_text(content, entry_num, nEntries) ==
    Call1(LAMBDA r : IF r.raise THEN [raise |-> FALSE, val |-> <<>>] ELSE r,
          parse_entry_from_text_try(content, entry_num, nEntries))

(***************************************************************************)
(* extract_from_text: the two tiers                                        *)
(***************************************************************************)

entryOpen  == <<"<", "lat_e", "lat_n", "lat_t", "lat_r", "lat_y">>
entryClose == <<"<", "/", "lat_e", "lat_n", "lat_t", "lat_r", "lat_y", ">">>
nAttr      == <<"lat_n", "=", "\"">>

\* n="(\d+)" matches at position a
OrdinalAt(s, a) ==
    /\ StartsAt(s, a, nAttr)
    /\ Call1(LAMBDA q : q > a + Len(nAttr) /\ q <= Len(s) /\ s[q] = "\"",
             SkipClass(s, a + Len(nAttr), Digits))

\* .*? : position of the first closing tag at or after p, 0 when none
ContentEnd(s, p) == FindLit(s, p, entryClose)

\* the match of <entry[^>]*n="(\d+)"[^>]*>(.*?)</entry> that starts at p,
\* as <<[num, content, next]>>, or <<>>.  g is the tag's '>'; the greedy
\* [^>]* stops at the last n="..." before it.
EntrySpanAt(s, p) ==
    IF ~StartsAt(s, p, entryOpen) THEN <<>>
    ELSE Call1(LAMBDA g :
           IF g = 0 THEN <<>>
           ELSE Call2(LAMBDA as, c :
                        IF as = {} \/ c = 0 THEN <<>>
                        ELSE Call1(LAMBDA a :
                               <<[num |-> Slice(s, a + Len(nAttr),
                                                SkipClass(s, a + Len(nAttr), Digits) - 1),
                                  content |-> Slice(s, g + 1, c - 1),
                                  next |-> c + Len(entryClose)]>>,
                               CHOOSE x \in as : \A y \in as : y <= x),
                      {a \in (p + Len(entryOpen))..(g - 1) : OrdinalAt(s, a)},
                      ContentEnd(s, g + 1)),
           FindClass(s, p + Len(entryOpen), {">"}))

\* re.finditer(entry_pattern, s, re.DOTALL): the groups [num, content]
FindEntrySpans(s) ==
    LET f[p \in Nat] ==
          Call1(LAMBDA o :
                  IF o = 0 THEN <<>>
                  ELSE Call1(LAMBDA m :
                               IF m = <<>> THEN f[o + 1]
                               ELSE <<[num |-> m[1].num, content |-> m[1].content]>>
                                      \o f[m[1].next],
                             EntrySpanAt(s, o)),
                FindLit(s, p, entryOpen))
    IN  f[1]

\* მეუღლე | შვილი | ასული | ძმა | და
kinship_markers ==
    << <<"m", "e", "u", "gh", "l", "e">>, shvili, asuli, <<"dz", "m", "a">>, <<"d", "a">> >>

\* re.finditer(r'[Ⴀ-ჿ][^\n]*(?:მეუღლე|შვილი|ასული|ძმა|და)[^\n]*', s):
\* group(0) of each match.  A match runs to the end of its line; when none
\* starts at the first character tried on a line none starts later on it.
FindKinshipRuns(s) ==
    LET f[p \in Nat] ==
          Call1(LAMBDA b :
                  IF b = 0 THEN <<>>
                  ELSE Call1(LAMBDA eol :
                               IF \E a \in (b + 1)..eol :
                                     FirstLitAt(s, a, kinship_markers) # 0
                               THEN <<Slice(s, b, eol)>> \o f[eol + 1]
                               ELSE f[eol + 1],
                             Call1(LAMBDA nl : IF nl = 0 THEN Len(s) ELSE nl - 1,
                                   FindClass(s, b, {"\n"}))),
                FindClass(s, p, Georgian))
    IN  f[1]

\* [num, content] for the free-text runs: parse_entry_from_text(text, str(i + 1))
NumberRuns(runs) ==
    [k \in 1..Len(runs) |-> [num |-> IntToStr(k), content |-> runs[k]]]

\* for match in matches: entry = parse_entry_from_text(...); if entry: append.
\* An exception leaving parse_entry_from_text ends the loop.
TextEntriesFrom(items, nEntries, acc0) ==
    ForEach(LAMBDA acc, k, item :
              IF acc.raise THEN acc
              ELSE Call1(LAMBDA r : IF r.raise THEN [raise |-> TRUE, val |-> acc.val]
                                    ELSE [raise |-> FALSE, val |-> acc.val \o r.val],
                         parse_entry_from_text(item.content, item.num, nEntries)),
            items, [raise |-> FALSE, val |-> acc0])

\* a plausible slip: the free-text tier run whatever the tagged tier found
extract_entries_BothTiers(xml_content, nEntries) ==
    Call1(LAMBDA tierA :
            IF tierA.raise THEN tierA
            ELSE TextEntriesFrom(NumberRuns(FindKinshipRuns(xml_content)),
                                 nEntries, tierA.val),
          TextEntriesFrom(FindEntrySpans(xml_content), nEntries, <<>>))

\* lines 86-109 of extract_from_text: the local list `entries`
extract_entries(xml_content, nEntries) ==
    Call1(LAMBDA tierA :
            IF tierA.raise \/ tierA.val # <<>> THEN tierA
            ELSE TextEntriesFrom(NumberRuns(FindKinshipRuns(xml_content)),
                                 nEntries, <<>>),
          TextEntriesFrom(FindEntrySpans(xml_content), nEntries, <<>>))

(***************************************************************************)
(* calculate_statistics (the second definition, the one in effect)         *)
(***************************************************************************)

\* sum(1 + len(entry['familyMembers']) for entry in es)
SumPersons(es) ==
    LET f[k \in 0..Len(es)] ==
          IF k = 0 THEN 0 ELSE f[k - 1] + 1 + Len(es[k].familyMembers)
    IN  f[Len(es)]

calculate_statistics(es, stats) ==
    [stats EXCEPT
        !.total_entries = Len(es),
        !.total_persons = @ + SumPersons(es),
        !.places = @ \cup UNION {Range(es[k].places) : k \in 1..Len(es)},
        !.occupations = @ \cup {es[k].mainPerson["occupation"] :
                                  k \in {j \in 1..Len(es) :
                                           /\ "occupation" \in DOMAIN es[j].mainPerson
                                           /\ es[j].mainPerson["occupation"] # ""}}]

(***************************************************************************)
(* Structured extraction of one entry element                              *)
(*                                                                         *)
(* An element is [tag, attrs, nodes, tail]; attrs is a dict; nodes are its *)
(* descendants in document order, each [tag, attrs, text] with text the    *)
(* node's own text ("#text" nodes are the text between the others).        *)
(***************************************************************************)

\* entry_elem.findall('.//<tag>')
FindAllNodes(elem, tag) == SelectSeq(elem.nodes, LAMBDA n : n.tag = tag)

\* ET.tostring(entry_elem, encoding='unicode', method='text'): the texts of
\* the nodes in document order, then the element's tail
FullText(elem) ==
    ForEach(LAMBDA acc, k, node : acc \o node.text, elem.nodes, <<>>) \o elem.tail

\* pers_elem.get('type', 'main')
PersonTypeOf(pers_elem) ==
    IF "type" \in DOMAIN pers_elem.attrs THEN pers_elem.attrs["type"] ELSE "main"

parse_persons(person_elements, entry) ==
    ForEach(LAMBDA e, i, pers_elem :
              Call2(LAMBDA person_type, name_text :
                      IF person_type = "main" \/ i = 1
                      THEN [e EXCEPT !.mainPerson =
                              [name |-> name_text, type |-> person_type,
                               occupation |-> get_occupation_from_type(person_type),
                               relationship |-> <<>>]]
                      ELSE [e EXCEPT !.familyMembers = Append(@,
                              [name |-> name_text, type |-> person_type,
                               occupation |-> get_occupation_from_type(person_type),
                               relationship |-> <<>>])],
                    PersonTypeOf(pers_elem), clean_text(pers_elem.text)),
            person_elements, entry)

parse_places(place_elements, entry) ==
    ForEach(LAMBDA e, i, place_elem :
              Call1(LAMBDA place_text :
                      IF place_text # <<>> THEN AddPlace(e, place_text) ELSE e,
                    clean_text(place_elem.text)),
            place_elements, entry)

\* for x in findall(...): n = x.get('n'); if n: manuscript[key] = n  (keys in turn)
SetFromBreaks(breaks, keys, manuscript) ==
    ForEach(LAMBDA m, i, brk :
              IF ~TruthyText(brk.attrs, "n") THEN m
              ELSE IF Len(keys) = 1 THEN Put(m, keys[1], brk.attrs["n"])
              ELSE Put(Put(m, keys[1], brk.attrs["n"]), keys[2], brk.attrs["n"]),
            breaks, manuscript)

parse_manuscript_refs(entry_elem, entry) ==
    [entry EXCEPT !.manuscript =
        SetFromBreaks(FindAllNodes(entry_elem, "pb"), <<"page", "folio">>,
                      SetFromBreaks(FindAllNodes(entry_elem, "lb"), <<"line">>, @))]

\* if not entry['mainPerson'].get('name'): extract_main_person_from_text(...)
RecoverMainPerson(entry) ==
    IF ~TruthyText(entry.mainPerson, "name")
    THEN extract_main_person_from_text(entry.notes, entry)
    ELSE entry

\* The body of the try block.  f'entry_{entry_number:03d}' formats a str with
\* 'd', which raises ValueError; it is evaluated only when the element has
\* no (or an empty) id attribute.
parse_entry_element_try(entry_elem, fallback_number) ==
    IF ~TruthyText(entry_elem.attrs, "id") THEN [raise |-> TRUE, val |-> <<>>]
    ELSE Call2(LAMBDA elem, entry_number :
           [raise |-> FALSE,
            val |-> <<
              Call1(LAMBDA e3 : RecoverMainPerson(e3),
                parse_manuscript_refs(elem,
                  parse_places(FindAllNodes(elem, "placeName"),
                    parse_persons(FindAllNodes(elem, "persName"),
                      [entryId |-> elem.attrs["id"],
                       entryNumber |-> IF IsDigitStr(entry_number)
                                       THEN StrToInt(entry_number)
                                       ELSE fallback_number,
                       mainPerson |-> EmptyDict,
                       familyMembers |-> <<>>,
                       manuscript |-> EmptyDict,
                       edition |-> EmptyDict,
                       dates |-> EmptyDict,
                       notes |-> clean_text(FullText(elem)),
                       places |-> <<>>])))) >>],
           entry_elem,
           IF "n" \in DOMAIN entry_elem.attrs THEN entry_elem.attrs["n"]
           ELSE IntToStr(fallback_number))

\* a plausible slip: no try/except around the body
parse_entry_element_NoCatch(entry_elem, fallback_number) ==
    parse_entry_element_try(entry_elem, fallback_number)

\* try ... except Exception: return None.  val is <<>> for None.
parse_entry_element(entry_elem, fallback_number) ==
    Call1(LAMBDA r : IF r.raise THEN [raise |-> FALSE, val |-> <<>>] ELSE r,
          parse_entry_element_try(entry_elem, fallback_number))

(***************************************************************************)
(* parse_xml_tree: locating the entry elements                             *)
(*                                                                         *)
(* A document root is [tag, attrs, children]: children are the elements    *)
(* below the root in document order.                                       *)
(***************************************************************************)

TeiEntryTag == "{http://www.tei-c.org/ns/1.0}entry"

\* elem.tag.endswith('entry'), for the tags the documents use
TagEndsWithEntry(tag) == tag \in {TeiEntryTag, "entry", "subentry"}

\* the nodes below the root: each element's nodes, then its tail
ChildNodes(children) ==
    ForEach(LAMBDA acc, k, child :
              acc \o child.nodes
                  \o (IF child.tail = <<>> THEN <<>>
                      ELSE <<[tag |-> "#text", attrs |-> EmptyDict, text |-> child.tail]>>),
            children, <<>>)

\* root.iter(): the root itself, then its descendants
IterElements(root) ==
    <<[tag |-> root.tag, attrs |-> root.attrs,
       nodes |-> ChildNodes(root.children), tail |-> <<>>]>> \o root.children

\* lines 55-69 of parse_xml_tree: the three ways of finding entry elements
LocateEntries(root) ==
    Call2(LAMBDA m1, m2 :
            IF m1 # <<>> THEN m1
            ELSE IF m2 # <<>> THEN m2
            ELSE SelectSeq(IterElements(root),
                           LAMBDA e : TruthyText(e.attrs, "n") /\ TagEndsWithEntry(e.tag)),
          SelectSeq(root.children, LAMBDA e : e.tag = TeiEntryTag),
          SelectSeq(root.children, LAMBDA e : e.tag = "entry"))

\* for i, entry_elem in enumerate(entries): ... self.entries.append(entry).
\* acc0 is self.entries.  An exception leaving parse_entry_element ends the loop.
ElementEntriesFrom(elems, acc0) ==
    ForEach(LAMBDA acc, i, entry_elem :
              IF acc.raise THEN acc
              ELSE Call1(LAMBDA r : IF r.raise THEN [raise |-> TRUE, val |-> acc.val]
                                    ELSE [raise |-> FALSE, val |-> acc.val \o r.val],
                         parse_entry_element(entry_elem, i)),
            elems, [raise |-> FALSE, val |-> acc0])

(***************************************************************************)
(* Input documents                                                         *)
(***************************************************************************)

nino == <<"n", "i", "n", "o">>                                   \* ნინო
ana  == <<"a", "n", "a">>                                        \* ანა
mtskheteli == <<"m", "ts", "kh", "e", "t", "e", "l", "i">>       \* მცხეთელი

Node(tag, attrs, text) == [tag |-> tag, attrs |-> attrs, text |-> text]
Elem(tag, attrs, nodes) == [tag |-> tag, attrs |-> attrs, nodes |-> nodes, tail |-> <<>>]

Bishop   == Node("persName", [type |-> "bishop"], nino)
Daughter == Node("persName", [type |-> "daughter"], ana)
PageIIIv == Node("pb", [n |-> <<"lat_I", "lat_I", "lat_I", "lat_v">>], <<>>)

\* <entry n="5" id="e5"> bishop, daughter, page break
ElemScenario ==
    Elem("entry", [n |-> <<"5">>, id |-> <<"lat_e", "5">>], <<Bishop, Daughter, PageIIIv>>)
\* the same without an id attribute
ElemNoId == Elem("entry", [n |-> <<"6">>], <<Bishop, Daughter, PageIIIv>>)
\* an empty main node, so the main name is recovered from the notes
ElemRecover ==
    Elem("entry", [n |-> <<"8">>, id |-> <<"lat_e", "8">>],
         <<Node("persName", [type |-> "main"], <<>>),
           Node("persName", [type |-> "wife"], nino),
           Node("#text", EmptyDict, <<" ">> \o ana \o <<" ">> \o mtskheteli)>>)

Root(tag, attrs, children) == [tag |-> tag, attrs |-> attrs, children |-> children]

\* the documents handed to parse_xml_tree
XmlDocs ==
    LET \* a family node that repeats the main person's name
        ElemSameName ==
            Elem("entry", [n |-> <<"7">>, id |-> <<"lat_e", "7">>],
                 <<Node("persName", EmptyDict, ana),
                   Node("persName", [type |-> "son"], ana),
                   Node("lb", [n |-> <<"3">>], <<>>)>>)
        \* a place node whose text ends in a patronymic suffix (ბედიანთ);
        \* no ordinal
        ElemPlace ==
            Elem("entry", [id |-> <<"lat_e", "9">>],
                 <<Node("persName", [type |-> "monk"], nino),
                   Node("placeName", EmptyDict, <<"b", "e", "d", "i", "a", "n", "t">>),
                   Node("placeName", EmptyDict, khani)>>)
        ElemTei ==
            Elem(TeiEntryTag, [n |-> <<"2">>, id |-> <<"lat_t", "2">>],
                 <<Node("persName", [type |-> "priest"], ana)>>)
        ElemSub ==
            Elem("subentry", [n |-> <<"4">>, id |-> <<"lat_s", "4">>],
                 <<Node("persName", EmptyDict, nino)>>)
        ElemDiv == Elem("div", EmptyDict, <<Node("#text", EmptyDict, ana)>>)
    IN  << Root("TEI", EmptyDict, <<ElemScenario, ElemNoId, ElemRecover>>),
           Root("TEI", EmptyDict, <<ElemSameName, ElemPlace>>),
           Root("TEI", EmptyDict, <<ElemScenario, ElemTei>>),
           Root("subentry", [n |-> <<"1">>, id |-> <<"lat_r">>], <<ElemDiv, ElemSub>>),
           Root("TEI", EmptyDict, <<ElemNoId>>),
           Root("TEI", EmptyDict, <<>>) >>

\* A raw source is described by its segments and rendered to characters:
\* a span is <entry{pre} n="{n}">{content}</entry>, a line is {content}\n.
Span(n, pre, content) == [kind |-> "span", n |-> n, pre |-> pre, content |-> content]
TextLine(content) == [kind |-> "line", n |-> 0, pre |-> <<>>, content |-> content]

RenderSegment(seg) ==
    IF seg.kind = "span"
    THEN entryOpen \o seg.pre \o <<" ">> \o nAttr \o IntToStr(seg.n) \o <<"\"", ">">>
           \o seg.content \o entryClose
    ELSE seg.content \o <<"\n">>

Render(segs) == ForEach(LAMBDA acc, k, seg : acc \o RenderSegment(seg), segs, <<>>)

\* the raw sources handed to extract_from_text, as segments
TextDocs ==
    LET SP == <<" ">>
        IdAttr == <<" ", "lat_i", "lat_d", "=", "\"", "lat_a", "\"">>
        WifeText == nino \o SP \o ana \o SP \o meughlesa
        PlaceText == ana \o SP \o tbeti
        SameText == ana \o SP \o ana \o SP \o asuli
        TaggedText ==
            placeNameOpen \o <<">">> \o khani \o placeNameClose \o SP \o nino \o SP
              \o mtskheteli \o <<" ", "lat_f", ".", " ", "lat_I", "lat_I", "lat_v",
                                 " ", "lat_l", ".", "3", "-", "4">>
        BishopText == nino \o SP \o episkopos \o <<"[", "]", " ">> \o SP \o ana \o dzmasa
        Junk == <<"<", "lat_x", ">", " ", "&", "\n">>
    IN  << << Span(3, <<>>, WifeText), TextLine(Junk), Span(1, IdAttr, PlaceText) >>,
           << TextLine(WifeText), TextLine(SameText) >>,
           << Span(2, <<>>, TaggedText) >>,
           << Span(1, <<>>, nino), TextLine(ana \o SP \o <<"d", "a">>) >>,
           << TextLine(BishopText) >>,
           << Span(12, IdAttr, SameText), Span(12, <<>>, BishopText) >>,
           << TextLine(Junk) >>,
           << >> >>

RawTexts == [d \in 1..Len(TextDocs) |-> Render(TextDocs[d])]

\* The files handed to parse_xml_file.  exists: whether open() finds the
\* file; raw: its characters; tree: <<root>> when ET.parse accepts them,
\* <<>> when it raises ParseError.
Files ==
    LET Tag(name) == <<"<">> \o name \o <<">">>
        EndTag(name) == <<"<", "/">> \o name \o <<">">>
        TEI == <<"lat_T", "lat_E", "lat_I">>
        div == <<"lat_d", "lat_i", "lat_v">>
        persName == <<"lat_p", "lat_e", "lat_r", "lat_s", "lat_N", "lat_a", "lat_m", "lat_e">>
        typeAttr(v) == <<" ", "lat_t", "lat_y", "lat_p", "lat_e", "=", "\"">> \o v \o <<"\"">>
        bishop == <<"lat_b", "lat_i", "lat_s", "lat_h", "lat_o", "lat_p">>
        daughter == <<"lat_d", "lat_a", "lat_u", "lat_g", "lat_h", "lat_t", "lat_e", "lat_r">>
        KinText == ana \o <<" ">> \o nino \o <<" ">> \o meughlesa
    IN  << \* no such file
           [exists |-> FALSE, raw |-> <<>>, tree |-> <<>>],
           \* <TEI><entry n="5" id="e5"><persName type="bishop">ნინო</persName>
           \* <persName type="daughter">ანა</persName><pb n="IIIv"/></entry></TEI>
           [exists |-> TRUE,
            raw |-> Tag(TEI) \o entryOpen
                      \o <<" ", "lat_n", "=", "\"", "5", "\"",
                           " ", "lat_i", "lat_d", "=", "\"", "lat_e", "5", "\"", ">">>
                      \o Tag(persName \o typeAttr(bishop)) \o nino \o EndTag(persName)
                      \o Tag(persName \o typeAttr(daughter)) \o ana \o EndTag(persName)
                      \o <<"<", "lat_p", "lat_b", " ", "lat_n", "=", "\"",
                           "lat_I", "lat_I", "lat_I", "lat_v", "\"", "/", ">">>
                      \o entryClose \o EndTag(TEI),
            tree |-> <<Root("TEI", EmptyDict, <<ElemScenario>>)>>],
           \* <TEI><div>ანა ნინო მეუღლესა</div></TEI>: well-formed, no entry element
           [exists |-> TRUE,
            raw |-> Tag(TEI) \o Tag(div) \o KinText \o EndTag(div) \o EndTag(TEI),
            tree |-> <<Root("TEI", EmptyDict,
                            <<Elem("div", EmptyDict,
                                   <<Node("#text", EmptyDict, KinText)>>)>>)>>],
           \* not well-formed, with entry spans
           [exists |-> TRUE, raw |-> RawTexts[1], tree |-> <<>>],
           \* not well-formed, kinship lines only
           [exists |-> TRUE, raw |-> RawTexts[2], tree |-> <<>>] >>

(***************************************************************************)
(* The parser as a state machine                                           *)
(*                                                                         *)
(* entries, statistics: the parser's fields.  returned, raised: the list   *)
(* the last batch call returned, and whether it raised instead.  lastCall: *)
(* the last batch call and its input.  arg, res: the input and the results *)
(* of the pure functions exercised on their own (Classify, CleanOnce,      *)
(* CleanTwice).                                                            *)
(***************************************************************************)

\* bound on the number of batch calls in a run
MaxCalls == 2

\* self.statistics as __init__ leaves it
InitStatistics ==
    [total_entries |-> 0, total_persons |-> 0, unique_surnames |-> {},
     places |-> {}, occupations |-> {}]

NoCall == [op |-> "none", doc |-> 0]

Init ==
    /\ entries = <<>>
    /\ statistics = InitStatistics
    /\ returned = <<>>
    /\ raised = FALSE
    /\ lastCall = NoCall
    /\ calls = 0
    /\ arg = <<>>
    /\ res = <<>>

\* TbetiTEIParser(): a fresh parser; what the last call returned is kept
NewParser ==
    /\ calls > 0
    /\ entries' = <<>>
    /\ statistics' = InitStatistics
    /\ UNCHANGED <<returned, raised, lastCall, calls, arg, res>>

\* parse_xml_tree(root).  The list returned is self.entries itself.
ParseXmlTree(d) ==
    /\ calls < MaxCalls
    /\ \E r \in {ElementEntriesFrom(LocateEntries(XmlDocs[d]), entries)} :
          /\ entries' = r.val
          /\ raised' = r.raise
          /\ statistics' = IF r.raise THEN statistics
                           ELSE calculate_statistics(r.val, statistics)
          /\ returned' = IF r.raise THEN returned ELSE r.val
    /\ calls' = calls + 1
    /\ lastCall' = [op |-> "xml", doc |-> d]
    /\ UNCHANGED <<arg, res>>

\* extract_from_text(xml_content)
ExtractFromText(d) ==
    /\ calls < MaxCalls
    /\ \E r \in {extract_entries(RawTexts[d], Len(entries))} :
          /\ raised' = r.raise
          /\ entries' = IF r.raise THEN entries ELSE r.val
          /\ statistics' = IF r.raise THEN statistics
                           ELSE calculate_statistics(r.val, statistics)
          /\ returned' = IF r.raise THEN returned ELSE r.val
    /\ calls' = calls + 1
    /\ lastCall' = [op |-> "text", doc |-> d]
    /\ UNCHANGED <<arg, res>>

\* parse_xml_file, from the fields es and stats: the fields it leaves and
\* the list it returns.  An exception leaving parse_xml_tree or
\* extract_from_text is caught here and [] is returned.
parse_xml_file(file, es, stats) ==
    IF ~file.exists
    THEN [entries |-> es, statistics |-> stats, returned |-> <<>>]
    ELSE IF file.tree # <<>>
    THEN Call1(LAMBDA r :
                 IF r.raise
                 THEN [entries |-> r.val, statistics |-> stats, returned |-> <<>>]
                 ELSE [entries |-> r.val,
                       statistics |-> calculate_statistics(r.val, stats),
                       returned |-> r.val],
               ElementEntriesFrom(LocateEntries(file.tree[1]), es))
    ELSE Call1(LAMBDA r :
                 IF r.raise
                 THEN [entries |-> es, statistics |-> stats, returned |-> <<>>]
                 ELSE [entries |-> r.val,
                       statistics |-> calculate_statistics(r.val, stats),
                       returned |-> r.val],
               extract_entries(file.raw, Len(es)))

\* parse_xml_file(xml_file_path)
ParseXmlFile(f) ==
    /\ calls < MaxCalls
    /\ \E r \in {parse_xml_file(Files[f], entries, statistics)} :
          /\ entries' = r.entries
          /\ statistics' = r.statistics
          /\ returned' = r.returned
    /\ raised' = FALSE
    /\ calls' = calls + 1
    /\ lastCall' = [op |-> "file", doc |-> f]
    /\ UNCHANGED <<arg, res>>

Next ==
    \/ NewParser
    \/ \E d \in 1..Len(XmlDocs) : ParseXmlTree(d)
    \/ \E d \in 1..Len(TextDocs) : ExtractFromText(d)
    \/ \E f \in 1..Len(Files) : ParseXmlFile(f)

Spec == Init /\ [][Next]_vars

(***************************************************************************)
(* The classifier on its own: every token over a few letters, and the      *)
(* allow-list                                                              *)
(***************************************************************************)

\* bound on the length of the tokens tried
MaxTokLen == 3

\* over the letters of the suffixes -ეთ, -ეთი, -ანთ, -ინთ, -ძე, -აძე, -ელი
Tokens ==
    UNION {[1..n -> {"e", "t", "i", "a", "n", "dz", "l"}] : n \in 0..MaxTokLen}
      \cup Range(known_places)

InitClassifier ==
    /\ entries = <<>>
    /\ statistics = InitStatistics
    /\ returned = <<>>
    /\ raised = FALSE
    /\ lastCall = NoCall
    /\ calls = 0
    /\ arg \in Tokens
    /\ res = <<>>

\* is_patronymic(arg) and is_actual_place(arg)
Classify ==
    /\ res = <<>>
    /\ res' = <<is_patronymic(arg), is_actual_place(arg)>>
    /\ UNCHANGED <<entries, statistics, returned, raised, lastCall, calls, arg>>

SpecClassifier == InitClassifier /\ [][Classify]_vars

(***************************************************************************)
(* clean_text on its own: texts put together from a few pieces             *)
(***************************************************************************)

\* bound on the number of pieces in a text
MaxPieces == 3

\* artifacts, whitespace, a letter, and an abbreviation whole and in parts
Pieces ==
    << <<"{">>, <<"]">>, <<" ">>, <<"\n">>, <<"a">>, <<"s", "(">>, <<"u", "l", "s">>,
       <<")", "a">>, Abbrev1 >>

Texts ==
    {None} \cup
    {ForEach(LAMBDA acc, k, n : acc \o Pieces[n], ps, <<>>) :
        ps \in UNION {[1..n -> 1..Len(Pieces)] : n \in 0..MaxPieces}}

InitNormalize ==
    /\ entries = <<>>
    /\ statistics = InitStatistics
    /\ returned = <<>>
    /\ raised = FALSE
    /\ lastCall = NoCall
    /\ calls = 0
    /\ arg \in Texts
    /\ res = <<>>

\* y = clean_text(x)
CleanOnce ==
    /\ res = <<>>
    /\ res' = <<clean_text(arg)>>
    /\ UNCHANGED <<entries, statistics, returned, raised, lastCall, calls, arg>>

\* clean_text(y)
CleanTwice ==
    /\ Len(res) = 1
    /\ res' = Append(res, clean_text(res[1]))
    /\ UNCHANGED <<entries, statistics, returned, raised, lastCall, calls, arg>>

NextNormalize == CleanOnce \/ CleanTwice

SpecNormalize == InitNormalize /\ [][NextNormalize]_vars

(***************************************************************************)
(* parse_entry_from_text on its own: texts of a few phrases, a phrase      *)
(* being a name, an optional space and an optional kinship word            *)
(***************************************************************************)

\* bound on the number of phrases in a text
MaxPhrases == 2

\* ნინო, and ანეთ, which ends in a patronymic suffix; with or without a
\* space; no word, or the word of a wife, son, daughter or sister pattern
Phrases ==
    {name \o gap \o word :
        name \in {nino, <<"a", "n", "e", "t">>},
        gap \in {<<>>, <<" ">>},
        word \in {<<>>, meughlisa, shvili, asuli, dasa}}

\* the phrases of a text are separated by one space
FamilyTexts ==
    UNION {{ForEach(LAMBDA acc, k, ph : IF k = 1 THEN ph ELSE acc \o <<" ">> \o ph,
                    phs, <<>>) :
              phs \in [1..n -> Phrases]} : n \in 0..MaxPhrases}

InitFamily ==
    /\ entries = <<>>
    /\ statistics = InitStatistics
    /\ returned = <<>>
    /\ raised = FALSE
    /\ lastCall = NoCall
    /\ calls = 0
    /\ arg \in FamilyTexts
    /\ res = <<>>

\* parse_entry_from_text(arg, '1') on a fresh parser
ParseEntryFromText ==
    /\ res = <<>>
    /\ res' = <<parse_entry_from_text(arg, <<"1">>, Len(entries)).val>>
    /\ UNCHANGED <<entries, statistics, returned, raised, lastCall, calls, arg>>

SpecFamily == InitFamily /\ [][ParseEntryFromText]_vars

(***************************************************************************)
(* Properties                                                              *)
(***************************************************************************)

\* C1: no entry produced by either extraction path has a family member
\* whose name is the entry's main person's name.
NoSelfReference ==
    \A k \in 1..Len(entries) :
        \A m \in 1..Len(entries[k].familyMembers) :
            "name" \in DOMAIN entries[k].mainPerson
                => entries[k].familyMembers[m].name # entries[k].mainPerson["name"]

\* C2: after any sequence of batch calls, total_persons is the sum over the
\* entries held of 1 + len(familyMembers), and total_entries their number.
AggregationInvariant ==
    /\ statistics.total_entries = Len(entries)
    /\ statistics.total_persons = SumPersons(entries)

\* what C3 says of the entry e produced from the scenario element el
ScenarioEntry(el, e) ==
    /\ e.entryNumber = StrToInt(el.attrs["n"])
    /\ e.entryId = IF TruthyText(el.attrs, "id") THEN el.attrs["id"]
                   ELSE EntryIdOf(StrToInt(el.attrs["n"]))
    /\ "occupation" \in DOMAIN e.mainPerson
    /\ e.mainPerson["occupation"] = "bishop"
    /\ Len(e.familyMembers) = 1
    /\ e.familyMembers[1].type = "daughter"
    /\ e.familyMembers[1].name = Daughter.text
    /\ "page" \in DOMAIN e.manuscript
    /\ e.manuscript["page"] = PageIIIv.attrs["n"]

\* C3: every located entry element with a numeric ordinal, a first person
\* typed bishop, a later person typed daughter and a page break yields an
\* entry with that ordinal, an id from the id attribute or else the ordinal,
\* occupation bishop, exactly that one daughter, and that page, whether or
\* not the element carries an id.
ScenarioEntryProduced ==
    lastCall.op = "xml" =>
        \A el \in Range(LocateEntries(XmlDocs[lastCall.doc])) :
            (/\ el.nodes = <<Bishop, Daughter, PageIIIv>>
             /\ TruthyText(el.attrs, "n")
             /\ IsDigitStr(el.attrs["n"]))
                => \E j \in 1..Len(returned) : ScenarioEntry(el, returned[j])

\* C4: a token that is_patronymic accepts is never accepted by
\* is_actual_place, the tokens of the allow-list included.
ClassifierExclusion ==
    res # <<>> => (res[1] => ~res[2])

\* C4 witness: a token of the allow-list that is_patronymic accepts
ClassifierExclusionWitness ==
    /\ res # <<>>
    /\ res[1]
    /\ InList(arg, known_places)

\* C5: no place of an entry from free-text extraction satisfies
\* is_patronymic, and statistics.places holds only strings that pass
\* is_actual_place, whichever path produced the entries.
NoPatronymicPlace ==
    /\ \A p \in statistics.places : is_actual_place(p)
    /\ lastCall.op = "text" =>
          \A k \in 1..Len(returned) :
              \A p \in Range(returned[k].places) : ~is_patronymic(p)

\* C6: a batch call repeated on the same input, on a fresh parser or on the
\* same one, returns the list the first call returned.
RerunReturnsSame ==
    [][(calls' = calls + 1 /\ lastCall' = lastCall) => returned' = returned]_vars

\* the entries of the elements whose extraction does not raise, in order
SurvivingElements(elems) ==
    ForEach(LAMBDA acc, i, el :
              Call1(LAMBDA r : IF r.raise THEN acc ELSE acc \o r.val,
                    parse_entry_element_try(el, i)),
            elems, <<>>)

\* the entries of the spans or runs whose extraction does not raise, in order
SurvivingItems(items, nEntries) ==
    ForEach(LAMBDA acc, k, item :
              Call1(LAMBDA r : IF r.raise THEN acc ELSE acc \o r.val,
                    parse_entry_from_text_try(item.content, item.num, nEntries)),
            items, <<>>)

\* the entries of a raw text when each failing span or run alone is left
\* out: those of the spans, or of the kinship runs when these are none
SurvivingText(raw, nEntries) ==
    IF SurvivingItems(FindEntrySpans(raw), nEntries) # <<>>
    THEN SurvivingItems(FindEntrySpans(raw), nEntries)
    ELSE SurvivingItems(NumberRuns(FindKinshipRuns(raw)), nEntries)

\* the entries the parser holds after a batch call when each failing entry
\* alone is left out; es are the entries it held before
Surviving(call, es) ==
    CASE call.op = "xml" -> es \o SurvivingElements(LocateEntries(XmlDocs[call.doc]))
      [] call.op = "text" -> SurvivingText(RawTexts[call.doc], Len(es))
      [] call.op = "file" ->
            IF ~Files[call.doc].exists THEN es
            ELSE IF Files[call.doc].tree # <<>>
                 THEN es \o SurvivingElements(LocateEntries(Files[call.doc].tree[1]))
            ELSE SurvivingText(Files[call.doc].raw, Len(es))

\* C7: a batch call never raises, and the entries it yields are those of
\* the elements (or spans) whose extraction did not raise, every one of
\* them, in source order; an entry whose extraction raises is alone left out.
FaultIsolation ==
    [][calls' = calls + 1 =>
          /\ ~raised'
          /\ entries' = Surviving(lastCall', entries)
          /\ returned' = IF lastCall'.op = "file" /\ ~Files[lastCall'.doc].exists
                         THEN <<>> ELSE entries']_vars

\* C7 witness: the document whose second element raises; the first and the
\* third are in the output and the call returned
FaultIsolationWitness ==
    /\ lastCall = [op |-> "xml", doc |-> 1]
    /\ calls = 1
    /\ ~raised
    /\ Len(returned) = 2
    /\ returned[1].entryId = ElemScenario.attrs["id"]
    /\ returned[2].entryId = ElemRecover.attrs["id"]

\* the <entry ... n="k">...</entry> spans of the raw source the last call had
SpansOf(call) == SelectSeq(TextDocs[call.doc], LAMBDA seg : seg.kind = "span")

\* C8 as amended: when the raw source holds entry spans, extract_from_text
\* returns one entry per span, with the span's ordinal as entryNumber and
\* its text as notes, in the order the spans occur in the source; the
\* kinship-marker runs yield entries only when there is no span, and these
\* are numbered from 1 in source order.
TierARecovery ==
    (lastCall.op = "text" /\ ~raised) =>
        IF SpansOf(lastCall) # <<>>
        THEN /\ Len(returned) = Len(SpansOf(lastCall))
             /\ \A k \in 1..Len(returned) :
                   /\ returned[k].entryNumber = SpansOf(lastCall)[k].n
                   /\ returned[k].notes = clean_text(SpansOf(lastCall)[k].content)
        ELSE \A k \in 1..Len(returned) : returned[k].entryNumber = k

\* C8 witness: two spans, ordinal 3 before ordinal 1, returned in that order
TierARecoveryWitness ==
    /\ lastCall = [op |-> "text", doc |-> 1]
    /\ Len(returned) = 2
    /\ returned[1].entryNumber = 3
    /\ returned[2].entryNumber = 1

\* C8 as stated: one entry per span, with the span's ordinal, ordered by
\* ordinal; kinship-marker runs yield entries only without spans.
TierAOrdinalOrder ==
    (lastCall.op = "text" /\ ~raised /\ SpansOf(lastCall) # <<>>) =>
        /\ Len(returned) = Len(SpansOf(lastCall))
        /\ \A k \in 1..Len(returned) : returned[k].entryNumber = SpansOf(lastCall)[k].n
        /\ \A j, k \in 1..Len(returned) :
              j < k => returned[j].entryNumber <= returned[k].entryNumber

\* C9: statistics.unique_surnames is the set of the non-empty surname and
\* patronymic values of the main persons of the entries.
SurnamesAggregated ==
    statistics.unique_surnames =
        UNION {{entries[k].mainPerson[x] :
                  x \in {y \in {"surname", "patronymic"} :
                           TruthyText(entries[k].mainPerson, y)}} :
               k \in 1..Len(entries)}

\* C10: clean_text applied to its own result returns that result, for
\* every text, the empty one and None included.
CleanIdempotent ==
    Len(res) = 2 => res[2] = res[1]

\* C10 witness: a text with an abbreviation, cleaned twice
CleanIdempotentWitness ==
    /\ Len(res) = 2
    /\ Contains(arg, Abbrev1)
    /\ Contains(res[1], Expand1)
    /\ res[1] # arg

\* the matches of the six kinship patterns in a text, pattern by pattern,
\* each with the name it captures and the position b where it starts
KinshipMatches(text) ==
    ForEach(LAMBDA acc, n, pat :
              Call1(LAMBDA ms :
                      acc \o [k \in 1..Len(ms) |->
                                [name |-> Slice(text, ms[k].b, ms[k].b + ms[k].k - 1),
                                 type |-> pat.type,
                                 relationship |-> pat.word,
                                 b |-> ms[k].b]],
                    FindRunLit(text, TRUE, <<pat.word>>)),
            family_patterns, <<>>)

\* entry['mainPerson'].get('name')
MainNameOf(entry) ==
    IF "name" \in DOMAIN entry.mainPerson THEN entry.mainPerson["name"] ELSE None

\* the matches C11 keeps: the name is not the main person's, and it is not
\* a son or daughter match whose name is_patronymic accepts
QualifyingMatches(text, main_name) ==
    SelectSeq(KinshipMatches(text),
              LAMBDA m : /\ m.name # main_name
                         /\ ~(m.type \in {"son", "daughter"} /\ is_patronymic(m.name)))

\* a match as a family member record
MemberOf(m) == [name |-> m.name, type |-> m.type, relationship |-> m.relationship]

\* C11: the family members of a free-text entry are exactly the matches of
\* the six kinship patterns whose name differs from the main person's name,
\* without the son and daughter matches whose name is_patronymic accepts;
\* every other match is recorded with the mapped type and the kinship word
\* as relationship, each as many times as it is matched.
FamilyExactlyMatches ==
    (res # <<>> /\ res[1] # <<>>) =>
        LET fam == res[1][1].familyMembers
            Q == QualifyingMatches(arg, MainNameOf(res[1][1]))
        IN  /\ Len(fam) = Len(Q)
            /\ \A r \in Range(fam) \cup {MemberOf(Q[k]) : k \in 1..Len(Q)} :
                  Cardinality({k \in 1..Len(fam) : fam[k] = r})
                    = Cardinality({k \in 1..Len(Q) : MemberOf(Q[k]) = r})

\* C11 witness: a wife whose name ends in a patronymic suffix is recorded
FamilyExactlyMatchesWitness ==
    /\ res # <<>>
    /\ res[1] # <<>>
    /\ \E m \in Range(res[1][1].familyMembers) :
          /\ m.type = "wife"
          /\ m.relationship = meughlisa
          /\ is_patronymic(m.name)


\* C13: the family members of a free-text entry stand in the order in which
\* their kinship matches start in the text, whatever relation each has: the
\* list is the kept matches arranged by non-decreasing start position.
FamilyInTextOrder ==
    (res # <<>> /\ res[1] # <<>>) =>
        LET fam == res[1][1].familyMembers
            Q == QualifyingMatches(arg, MainNameOf(res[1][1]))
        IN  /\ Len(fam) = Len(Q)
            /\ \E p \in Permutations(1..Len(Q)) :
                  /\ \A i \in 1..Len(Q) : fam[i] = MemberOf(Q[p[i]])
                  /\ \A i, j \in 1..Len(Q) : i < j => Q[p[i]].b <= Q[p[j]].b

\* what structured parsing of a file yields: the entries of its entry
\* elements, none when the file is not well-formed
StructuredYield(file) ==
    IF file.tree = <<>> THEN <<>>
    ELSE ElementEntriesFrom(LocateEntries(file.tree[1]), <<>>).val

\* what the tagged-text tier yields on the raw text
TierAYield(raw, nEntries) ==
    TextEntriesFrom(FindEntrySpans(raw), nEntries, <<>>).val

\* what the free-text tier yields on the raw text
TierBYield(raw, nEntries) ==
    TextEntriesFrom(NumberRuns(FindKinshipRuns(raw)), nEntries, <<>>).val

\* C12: on a file that exists the strategies are tried in the order
\* structured parsing, tagged-text tier, free-text tier, and the first one
\* that yields entries decides the result; the text tiers run both when the
\* file is not well-formed and when it is well-formed but structured
\* parsing yields no entries.
FallbackCascade ==
    [][(calls' = calls + 1 /\ lastCall'.op = "file" /\ Files[lastCall'.doc].exists) =>
          LET file == Files[lastCall'.doc]
          IN  returned' =
                IF StructuredYield(file) # <<>> THEN entries \o StructuredYield(file)
                ELSE IF TierAYield(file.raw, Len(entries)) # <<>>
                     THEN TierAYield(file.raw, Len(entries))
                ELSE TierBYield(file.raw, Len(entries))]_vars

=============================================================================
